---- MODULE Spec2Model ----
(***************************************************************************)
(* Model of motion_web.py: the per-day bin table and flush cursor shared   *)
(* by motion_watcher and bin_logger under bin_lock, and the log file       *)
(* shared by the appenders and prune_log_file under log_lock.              *)
(*                                                                         *)
(* A datetime is an integer number of minutes since 2025-01-01 00:00       *)
(* (local wall clock, no DST, seconds always 00); a date is a day number   *)
(* since 2025-01-01.  A line of text is a sequence of one-character        *)
(* strings.                                                                *)
(***************************************************************************)
EXTENDS Integers, Sequences, FiniteSets, TLC

(* ------------------------------------------------------------------ *)
(* Configuration (motion_web.py lines 12-25)                            *)
(* ------------------------------------------------------------------ *)

\* BIN_MINUTES is a configuration value ("change as needed", default 5): the
\* value the module was loaded with.  Nothing assigns it after the load.
VARIABLE BIN_MINUTES

\* The width the model loads the program with unless a specification says
\* otherwise: 360-minute bins (a divisor of 1440), so that a day has four
\* bins.
ConfiguredBinMinutes == 360
LOG_RETENTION_DAYS == 90
NETWORK_CHECK_INTERVAL == 60
PRUNE_CHECK_INTERVAL == 60
PRUNE_AT_HOUR == 2

\* Bounds of the model.
MaxTicks == 7          \* clock steps of the flusher specifications
MaxEvents == 2         \* motion events
StartDay == 120        \* the day the process starts on (2025-05-01)
LogMaxTicks == 1       \* clock steps of the log-file specification
MaxNetLines == 1       \* NET lines network_watcher appends
MaxFileLen == 2        \* lines of the file a prune is applied to

minutes_per_day == 24 * 60
num_bins == minutes_per_day \div BIN_MINUTES

MW == "motion_watcher"
BL == "bin_logger"
NW == "network_watcher"
PW == "prune_watcher"
Flushers == {MW, BL}
Threads == {MW, BL, NW, PW}
Free == "free"

\* Python's None, for values that are otherwise datetimes or strings.
None == <<>>
Some(x) == <<x>>

(* ------------------------------------------------------------------ *)
(* datetime                                                             *)
(* ------------------------------------------------------------------ *)
DateOf(t) == t \div minutes_per_day
HourOf(t) == (t % minutes_per_day) \div 60
MinuteOf(t) == t % 60

\* (now.hour * 60 + now.minute) // BIN_MINUTES
BinIndexOf(t) == (HourOf(t) * 60 + MinuteOf(t)) \div BIN_MINUTES

\* The calendar: years of 365 days with the months of 2025.
MonthDays == <<31, 28, 31, 30, 31, 30, 31, 31, 30, 31, 30, 31>>
RECURSIVE DaysBefore(_)
DaysBefore(m) == IF m <= 1 THEN 0 ELSE DaysBefore(m - 1) + MonthDays[m - 1]
YearOf(day) == 2025 + (day \div 365)
MonthOf(day) ==
    CHOOSE m \in 1..12 : DaysBefore(m) <= (day % 365) /\ (day % 365) < DaysBefore(m) + MonthDays[m]
DayOfMonth(day) == (day % 365) - DaysBefore(MonthOf(day)) + 1
DayNumber(y, m, d) == (y - 2025) * 365 + DaysBefore(m) + d - 1

(* ------------------------------------------------------------------ *)
(* Text formatting (f-strings and strftime)                             *)
(* ------------------------------------------------------------------ *)
Digits == <<"0", "1", "2", "3", "4", "5", "6", "7", "8", "9">>
DigitChar(n) == Digits[n + 1]

RECURSIVE Decimal(_)
\* str(n) for n >= 0
Decimal(n) == IF n < 10 THEN <<DigitChar(n)>> ELSE Decimal(n \div 10) \o <<DigitChar(n % 10)>>

\* {n:02d}
Pad2(n) == IF n < 10 THEN <<"0">> \o Decimal(n) ELSE Decimal(n)
\* {n:2d}
Space2(n) == IF n < 10 THEN <<" ">> \o Decimal(n) ELSE Decimal(n)
\* %Y
Pad4(n) ==
    IF n < 10 THEN <<"0", "0", "0">> \o Decimal(n)
    ELSE IF n < 100 THEN <<"0", "0">> \o Decimal(n)
    ELSE IF n < 1000 THEN <<"0">> \o Decimal(n)
    ELSE Decimal(n)

\* day.strftime("%Y-%m-%d")
FormatDate(day) ==
    Pad4(YearOf(day)) \o <<"-">> \o Pad2(MonthOf(day)) \o <<"-">> \o Pad2(DayOfMonth(day))

\* t.strftime("%Y-%m-%d %H:%M:%S")
FormatDateTime(t) ==
    FormatDate(DateOf(t)) \o <<" ">> \o Pad2(HourOf(t)) \o <<":">> \o Pad2(MinuteOf(t))
        \o <<":", "0", "0">>

\* The line write_bin_to_log builds for bin (day, bin_index) with `count`.
BinLineText(day, bin_index, count) ==
    LET start_minutes == bin_index * BIN_MINUTES
        end_minutes == start_minutes + BIN_MINUTES
        sh == start_minutes \div 60
        sm == start_minutes % 60
        eh == (end_minutes \div 60) % 24
        em == end_minutes % 60
    IN FormatDate(day) \o <<" ">> \o Pad2(sh) \o <<":">> \o Pad2(sm) \o <<" ", "-", " ">>
         \o Pad2(eh) \o <<":">> \o Pad2(em) \o <<":", " ", "D", "e", "t", "e", "c", "t", "e",
                 "d", " ">> \o Space2(count)
         \o <<" ", "m", "o", "t", "i", "o", "n", " ", "e", "v", "e", "n", "t", "s", ".", "\n">>

\* The messages network_watcher logs, with router IP 192.168.1.1.
NetMessage(msg) ==
    CASE msg = "ROUTER" -> <<"D", "e", "t", "e", "c", "t", "e", "d", " ", "r", "o", "u", "t",
            "e", "r", " ", "I", "P", ":", " ", "1", "9", "2", ".", "1", "6", "8", ".", "1",
            ".", "1">>
      [] msg = "NO_ROUTER_INFO" -> <<"R", "o", "u", "t", "e", "r", " ", "I", "P", " ", "u",
              "n", "k", "n", "o", "w", "n", ";", " ", "c", "a", "n", "n", "o", "t", " ", "p",
              "e", "r", "f", "o", "r", "m", " ", "n", "e", "t", "w", "o", "r", "k", " ", "c",
              "h", "e", "c", "k", "s", ".">>
      [] msg = "LAN_DOWN" -> <<"R", "o", "u", "t", "e", "r", " ", "u", "n", "r", "e", "a",
              "c", "h", "a", "b", "l", "e", " ", "(", "1", "9", "2", ".", "1", "6", "8", ".",
              "1", ".", "1", ")", ".", " ", "N", "e", "t", "w", "o", "r", "k", " ", "D", "O",
              "W", "N", ".">>
      [] msg = "LAN_UP_INTERNET_DOWN" -> <<"R", "o", "u", "t", "e", "r", " ", "r", "e", "a",
              "c", "h", "a", "b", "l", "e", " ", "(", "1", "9", "2", ".", "1", "6", "8", ".",
              "1", ".", "1", ")", " ", "b", "u", "t", " ", "e", "x", "t", "e", "r", "n", "a",
              "l", " ", "h", "o", "s", "t", " ", "1", ".", "1", ".", "1", ".", "1", " ", "u",
              "n", "r", "e", "a", "c", "h", "a", "b", "l", "e", ".", " ", "I", "n", "t", "e",
              "r", "n", "e", "t", " ", "D", "O", "W", "N", ".">>
      [] msg = "INTERNET_UP" -> <<"R", "o", "u", "t", "e", "r", " ", "r", "e", "a", "c", "h",
              "a", "b", "l", "e", " ", "(", "1", "9", "2", ".", "1", "6", "8", ".", "1", ".",
              "1", ")", " ", "a", "n", "d", " ", "e", "x", "t", "e", "r", "n", "a", "l", " ",
              "h", "o", "s", "t", " ", "1", ".", "1", ".", "1", ".", "1", " ", "r", "e", "a",
              "c", "h", "a", "b", "l", "e", ".", " ", "N", "e", "t", "w", "o", "r", "k", " ",
              "U", "P", ".">>

\* The line log_network_event builds at instant ts.
NetLineText(ts, msg) == FormatDateTime(ts) \o <<" ", "N", "E", "T", ":",
        " ">> \o NetMessage(msg) \o <<"\n">>

\* The line log_prune_event builds at instant ts.
PruneLineText(ts, removed, kept, cutoff_dt) ==
    FormatDateTime(ts) \o <<" ", "P", "R", "U", "N", "E", ":", " ", "R", "e", "m", "o", "v",
            "e", "d", " ">> \o Decimal(removed)
        \o <<" ", "l", "i", "n", "e", "s", " ", "o", "l", "d", "e", "r", " ", "t", "h", "a",
                "n", " ">> \o Decimal(LOG_RETENTION_DAYS) \o <<" ", "d", "a", "y", "s", " ",
                "(", "c", "u", "t", "o", "f", "f", " ">>
        \o FormatDateTime(cutoff_dt) \o <<")", ".", " ", "K", "e", "p", "t",
                " ">> \o Decimal(kept) \o <<" ", "l", "i", "n", "e", "s", ".", "\n">>

\* The header lines init_log_file writes (line 4 depends on the router IP).
HeaderText(id, started) ==
    CASE id = 1 -> <<"M", "o", "t", "i", "o", "n", " ", "b", "i", "n", " ", "l", "o", "g",
            "\n">>
      [] id = 2 -> <<"S", "t", "a", "r", "t", "e", "d", ":", " ">> \o FormatDateTime(started) \o <<"\n">>
      [] id = 3 -> <<"R", "e", "t", "e", "n", "t", "i", "o", "n", ":", " ", "l", "a", "s",
              "t", " ">> \o Decimal(LOG_RETENTION_DAYS) \o <<" ", "d", "a", "y", "s", "\n">>
      [] id = 4 -> <<"R", "o", "u", "t", "e", "r", " ", "I", "P", " ", "d", "e", "t", "e",
              "c", "t", "e", "d", ":", " ", "1", "9", "2", ".", "1", "6", "8", ".", "1", ".",
              "1", "\n">>
      [] id = 5 -> <<"E", "x", "t", "e", "r", "n", "a", "l", " ", "I", "P", " ", "u", "s",
              "e", "d", " ", "f", "o", "r", " ", "i", "n", "t", "e", "r", "n", "e", "t", " ",
              "c", "h", "e", "c", "k", ":", " ", "1", ".", "1", ".", "1", ".", "1", "\n">>
      [] id = 6 -> <<"F", "o", "r", "m", "a", "t", ":", " ", "Y", "Y", "Y", "Y", "-", "M",
              "M", "-", "D", "D", " ", "H", "H", ":", "M", "M", " ", "-", " ", "H", "H", ":",
              "M", "M", ":", " ", "D", "e", "t", "e", "c", "t", "e", "d", " ", "N", "N", " ",
              "m", "o", "t", "i", "o", "n", " ", "e", "v", "e", "n", "t", "s", ".", "\n">>
      [] id = 7 -> <<"-", "-", "-", "-", "-", "-", "-", "-", "-", "-", "-", "-", "-", "-",
              "-", "-", "-", "-", "-", "-", "-", "-", "-", "-", "-", "-", "-", "-", "-", "-",
              "-", "-", "-", "-", "-", "-", "-", "-", "-", "-", "-", "-", "-", "-", "-", "-",
              "-", "-", "-", "-", "-", "-", "-", "-", "-", "-", "-", "-", "-", "-", "-", "\n">>
      [] id = 8 -> <<"R", "o", "u", "t", "e", "r", " ", "I", "P", " ", "d", "e", "t", "e",
              "c", "t", "e", "d", ":", " ", "U", "N", "K", "N", "O", "W", "N", " ", "(", "c",
              "o", "u", "l", "d", " ", "n", "o", "t", " ", "d", "e", "t", "e", "c", "t", " ",
              "d", "e", "f", "a", "u", "l", "t", " ", "g", "a", "t", "e", "w", "a", "y", ")",
              "\n">>

\* Lines that no writer of the program produces (a file edited by hand).
ForeignText(id) ==
    CASE id = 1 -> <<"2", "0", "2", "5", "-", "1", "3", "-", "4", "0", " ", "1", "0", ":",
            "0", "0", ":", "0", "0", " ", "N", "E", "T", ":", " ", "n", "o", "t", " ", "a",
            " ", "d", "a", "t", "e", "\n">>
      [] id = 2 -> <<"2", "0", "2", "5", "0", "1", "0", "1", "0", "0", "0", "0", "0", "0",
              "0", "0", "0", "0", "0", "0", "\n">>
      [] id = 3 -> <<"\n">>

(* ------------------------------------------------------------------ *)
(* Lines of the log file.  A line is kept as the record of the call     *)
(* that wrote it; LineText gives its characters.                        *)
(* ------------------------------------------------------------------ *)
BinLine(day, bin_index, count) ==
    [kind |-> "BIN", day |-> day, bin |-> bin_index, count |-> count]
NetLine(ts, msg) == [kind |-> "NET", ts |-> ts, msg |-> msg]
PruneLine(ts, removed, kept, cutoff_dt) ==
    [kind |-> "PRUNE", ts |-> ts, removed |-> removed, kept |-> kept, cutoff |-> cutoff_dt]
HeaderLine(id, started) == [kind |-> "HDR", id |-> id, started |-> started]
ForeignLine(id) == [kind |-> "RAW", id |-> id]

LineText(l) ==
    CASE l.kind = "BIN" -> BinLineText(l.day, l.bin, l.count)
      [] l.kind = "NET" -> NetLineText(l.ts, l.msg)
      [] l.kind = "PRUNE" -> PruneLineText(l.ts, l.removed, l.kept, l.cutoff)
      [] l.kind = "HDR" -> HeaderText(l.id, l.started)
      [] l.kind = "RAW" -> ForeignText(l.id)

(* ------------------------------------------------------------------ *)
(* _parse_line_timestamp                                                *)
(* ------------------------------------------------------------------ *)
IsDigit(c) == \E i \in 1..10 : Digits[i] = c
DigitValue(c) == (CHOOSE i \in 1..10 : Digits[i] = c) - 1

\* str.isdigit(): non-empty and every character a digit
IsDigitStr(s) == Len(s) > 0 /\ \A i \in 1..Len(s) : IsDigit(s[i])

\* line[a:b] of Python (0-based, end excluded)
Slice(line, a, b) == SubSeq(line, a + 1, IF b < Len(line) THEN b ELSE Len(line))
\* line[i] of Python (0-based)
At(line, i) == line[i + 1]

RECURSIVE NumberOf(_)
NumberOf(s) == IF Len(s) = 0 THEN 0 ELSE NumberOf(SubSeq(s, 1, Len(s) - 1)) * 10 + DigitValue(s[Len(s)])

\* datetime.strptime(s, "%Y-%m-%d %H:%M") on the 16 characters s, and with
\* with_seconds "%Y-%m-%d %H:%M:%S" on the 19 characters s; None for ValueError.
Strptime(s, with_seconds) ==
    LET shape ==
            /\ IsDigitStr(Slice(s, 0, 4)) /\ At(s, 4) = "-"
            /\ IsDigitStr(Slice(s, 5, 7)) /\ At(s, 7) = "-"
            /\ IsDigitStr(Slice(s, 8, 10)) /\ At(s, 10) = " "
            /\ IsDigitStr(Slice(s, 11, 13)) /\ At(s, 13) = ":"
            /\ IsDigitStr(Slice(s, 14, 16))
            /\ with_seconds => (At(s, 16) = ":" /\ IsDigitStr(Slice(s, 17, 19)))
        y == NumberOf(Slice(s, 0, 4))
        m == NumberOf(Slice(s, 5, 7))
        d == NumberOf(Slice(s, 8, 10))
        H == NumberOf(Slice(s, 11, 13))
        M == NumberOf(Slice(s, 14, 16))
    IN IF shape /\ y >= 1 /\ m \in 1..12 /\ H <= 23 /\ M <= 59
          /\ (with_seconds => NumberOf(Slice(s, 17, 19)) <= 61)
       THEN (IF d \in 1..MonthDays[m]
             THEN Some(DayNumber(y, m, d) * minutes_per_day + H * 60 + M)
             ELSE None)
       ELSE None

\* if len(line) < 16 or not line[:10].isdigit(): return None
ParseRejects(line) == Len(line) < 16 \/ ~IsDigitStr(Slice(line, 0, 10))

\* _parse_line_timestamp(line): Some(datetime) or None
ParseLineTimestamp(line) ==
    IF ParseRejects(line) THEN None
    ELSE LET case1 ==
                 IF /\ Len(line) >= 19 /\ At(line, 4) = "-" /\ At(line, 7) = "-"
                    /\ At(line, 10) = " " /\ At(line, 13) = ":" /\ At(line, 16) = ":"
                 THEN Strptime(Slice(line, 0, 19), TRUE) ELSE None
             case2 ==
                 IF /\ Len(line) >= 18 /\ At(line, 4) = "-" /\ At(line, 7) = "-"
                    /\ At(line, 10) = " " /\ At(line, 13) = ":" /\ Slice(line, 16, 18) = <<" ", "-">>
                 THEN Strptime(Slice(line, 0, 16), FALSE) ELSE None
         IN IF case1 # None THEN case1 ELSE case2

LineVerdict_dropsHeaders(ts, cutoff_dt) ==
    IF ts # None /\ ts[1] >= cutoff_dt THEN "kept" ELSE "removed"

\* The body of the loop of prune_log_file for a line whose parsed timestamp
\* is ts: "header" (kept: ts is None), "kept" (ts >= cutoff_dt) or "removed".
LineVerdict(ts, cutoff_dt) ==
    IF ts = None THEN "header"
    ELSE IF ts[1] >= cutoff_dt THEN "kept"
    ELSE "removed"

\* The effect of one line on the locals acc (kept_lines, removed,
\* kept_timestamped) of prune_log_file.
PruneStep(acc, line, verdict) ==
    CASE verdict = "header" ->
           [acc EXCEPT !.kept_lines = Append(@, line)]
      [] verdict = "kept" ->
           [acc EXCEPT !.kept_lines = Append(@, line),
                       !.kept_timestamped = @ + 1]
      [] verdict = "removed" ->
           [acc EXCEPT !.removed = @ + 1]

RECURSIVE PruneLoop(_, _, _)
\* The loop `for line in lines:` of prune_log_file, from the locals acc.
PruneLoop(lines, cutoff_dt, acc) ==
    IF Len(lines) = 0 THEN acc
    ELSE PruneLoop(Tail(lines), cutoff_dt,
             PruneStep(acc, Head(lines),
                 LineVerdict(ParseLineTimestamp(LineText(Head(lines))), cutoff_dt)))

(* ------------------------------------------------------------------ *)
(* State                                                                *)
(* ------------------------------------------------------------------ *)
\* dict helpers: current_day_bin_counts is a dict bin_index -> count
EmptyDict == [k \in {} |-> 0]
DictGet(d, k) == IF k \in DOMAIN d THEN d[k] ELSE 0
DictPut(d, k, v) == [x \in (DOMAIN d) \cup {k} |-> IF x = k THEN v ELSE d[x]]

VARIABLES
    clock,                    \* datetime.now()
    start_time,
    active_date,
    current_day_bin_counts,
    last_logged_bin,
    motion_events,
    last_motion,
    bin_lock,                 \* Free or the thread that holds it
    log_lock,                 \* Free or the thread that holds it
    log_file,                 \* the lines of the log file, in order
    last_log_prune_at,
    ROUTER_IP,
    network_state,
    pc,                       \* position of each thread
    now,                      \* `now` of motion_watcher and of bin_logger
    loop_b,                   \* loop variable b of flush_finished_bins
    wake,                     \* end of the time.sleep of a sleeping thread
    nw,                       \* locals of network_watcher
    pw,                       \* locals of prune_log_file
    bins_html,                \* what build_bins_html last returned to index()
    \* history variables (not program state)
    recorded,                 \* instants whose count was incremented
    writes,                   \* calls of write_bin_to_log that wrote a line
    rolled,                   \* dates the flusher has rolled over out of
    late_add,                 \* an event was added to a bin already written
    pass,                     \* bookkeeping of the flush passes
    failed                    \* calls of write_bin_to_log that raised

timeVars == <<clock, start_time, BIN_MINUTES>>
binVars == <<active_date, current_day_bin_counts, last_logged_bin>>
motionVars == <<motion_events, last_motion>>
netVars == <<ROUTER_IP, network_state, nw>>
pruneVars == <<last_log_prune_at, pw>>
viewVars == <<bins_html>>
histVars == <<recorded, writes, rolled, late_add, pass, failed>>

vars == <<BIN_MINUTES, clock, start_time, active_date, current_day_bin_counts, last_logged_bin,
          motion_events, last_motion, bin_lock, log_lock, log_file,
          last_log_prune_at, ROUTER_IP, network_state, pc, now, loop_b, wake,
          nw, pw, bins_html, recorded, writes, rolled, late_add, pass, failed>>

RouterIp == "192.168.1.1"

\* start_bin_index = (start_time.hour * 60 + start_time.minute) // BIN_MINUTES
start_bin_index == BinIndexOf(start_time)

\* The file init_log_file writes.
InitialFile(started, router) ==
    [i \in 1..7 |-> HeaderLine(IF i = 4 /\ router = None THEN 8 ELSE i,
                               IF i = 2 THEN started ELSE 0)]

NoPass == [prev |-> -1, prev_wrote |-> 0, dirty |-> FALSE,
           same |-> FALSE, pre |-> <<>>, wrote |-> 0]
PwIdle == [from |-> "", now |-> 0, cutoff |-> 0, lines |-> <<>>, kept |-> <<>>,
           removed |-> 0, kept_timestamped |-> 0, error |-> ""]
\* No page was built yet.  `now` and `events` record the datetime.now() and
\* the motion_events the rows were built from.
NoView == [now |-> -1, events |-> <<>>, rows |-> <<>>]
NwInit == [prev_state |-> None, state |-> None, logged |-> 0]

\* Where each thread is once __main__ has started it.
Started ==
    [t \in Threads |->
        CASE t = MW -> "wait" [] t = BL -> "tick" [] t = NW -> "check" [] t = PW -> "startup"]

\* The module-level assignments, for a start instant among `starts` and a
\* detected router among `routers`.
ModuleLevel(starts, routers) ==
    /\ start_time \in starts
    /\ ROUTER_IP \in routers
    /\ clock = start_time
    /\ active_date = DateOf(start_time)
    /\ current_day_bin_counts = EmptyDict
    /\ last_logged_bin = BinIndexOf(start_time) - 1
    /\ motion_events = <<>>
    /\ last_motion = None
    /\ bin_lock = Free
    /\ log_lock = Free
    /\ last_log_prune_at = None
    /\ network_state = None
    /\ now = [t \in Flushers |-> start_time]
    /\ loop_b = [t \in Flushers |-> 0]
    /\ wake = [t \in {NW, PW} |-> start_time]
    /\ nw = NwInit
    /\ pw = PwIdle
    /\ bins_html = NoView
    /\ recorded = <<>>
    /\ writes = <<>>
    /\ rolled = {}
    /\ late_add = FALSE
    /\ pass = NoPass
    /\ failed = {}

\* The state after the module-level assignments, init_log_file and the start
\* of the four threads.
InitWith(starts, routers) ==
    /\ ModuleLevel(starts, routers)
    /\ pc = Started

\* Start instants of the flusher specifications: midnight of the start day,
\* and a point inside every later bin of it.
StartTimes ==
    {StartDay * minutes_per_day + m :
        m \in {0} \cup {b * BIN_MINUTES + BIN_MINUTES \div 4 : b \in 1..(num_bins - 1)}}

Init ==
    /\ BIN_MINUTES = ConfiguredBinMinutes
    /\ InitWith(StartTimes, {Some(RouterIp)})
    /\ log_file = InitialFile(start_time, ROUTER_IP)

(* ------------------------------------------------------------------ *)
(* The wall clock                                                       *)
(* ------------------------------------------------------------------ *)
\* A thread that has read `now` finishes its pass before the clock has moved
\* by more than one step: the clock step is far longer than a pass, so the
\* `now` of a pass in progress is the current instant or the one before it.
NoStalePass == \A t \in Flushers : pc[t] \in {"wait", "tick", "dead"} \/ now[t] = clock

\* bin_logger wakes every BIN_FLUSH_INTERVAL = 2 seconds, far more often than
\* the clock steps: while it runs, it has read `now` at the current instant
\* before the clock moves on.
LoggerKeepsUp == pc[BL] = "dead" \/ now[BL] = clock

Tick(step, max) ==
    /\ clock + step <= start_time + max * step
    /\ NoStalePass
    /\ LoggerKeepsUp
    /\ clock' = clock + step
    /\ UNCHANGED <<start_time, BIN_MINUTES, viewVars, binVars, motionVars, bin_lock,
                   log_lock, log_file,
                   netVars, pruneVars, pc, now, loop_b, wake, histVars>>

(* ------------------------------------------------------------------ *)
(* write_bin_to_log                                                     *)
(* ------------------------------------------------------------------ *)
AppendGuard_noLock(t) == TRUE

\* `with log_lock:` of an append by thread t: it waits until log_lock is free.
AppendGuard(t) == log_lock = Free

\* Number of events recorded so far for bin (day, b).
RecordedFor(day, b) ==
    Cardinality({i \in DOMAIN recorded :
                   DateOf(recorded[i]) = day /\ BinIndexOf(recorded[i]) = b})

WasWritten(day, b) == \E i \in DOMAIN writes : writes[i].day = day /\ writes[i].bin = b

\* The end-of-interval instant of bin (day, b).
BinEnd(day, b) == day * minutes_per_day + (b + 1) * BIN_MINUTES

\* One iteration of a flush loop: write_bin_to_log(active_date, b, count).
WriteBin(t, roll) ==
    LET b == loop_b[t]
        count == DictGet(current_day_bin_counts, b)
    IN /\ AppendGuard(t)
       /\ log_file' = Append(log_file, BinLine(active_date, b, count))
       /\ writes' = Append(writes, [day |-> active_date, bin |-> b, count |-> count,
                                    early |-> BinEnd(active_date, b) > now[t],
                                    roll |-> roll,
                                    truth |-> RecordedFor(active_date, b)])
       /\ pass' = [pass EXCEPT !.wrote = @ + 1]
       /\ loop_b' = [loop_b EXCEPT ![t] = b + 1]

(* ------------------------------------------------------------------ *)
(* flush_finished_bins(now), run by thread t while it holds bin_lock    *)
(* ------------------------------------------------------------------ *)

\* `with bin_lock:`
Acquire(t) ==
    /\ pc[t] = "lock"
    /\ bin_lock = Free
    /\ bin_lock' = t
    /\ pc' = [pc EXCEPT ![t] = "flush"]
    /\ pass' = [pass EXCEPT !.same = (pass.prev = now[t] /\ ~pass.dirty),
                            !.pre = <<active_date, current_day_bin_counts, last_logged_bin>>,
                            !.wrote = 0]
    /\ UNCHANGED <<timeVars, viewVars, binVars, motionVars, log_lock, log_file, netVars,
                   pruneVars, now, loop_b, wake, recorded, writes, rolled,
                   late_add, failed>>

\* if now.date() != active_date:
IsRollover(t) == DateOf(now[t]) # active_date

RolloverLast_short == num_bins - 2

\* range(last_logged_bin + 1, num_bins): the last index of the rollover loop
RolloverLast == num_bins - 1

TargetLast_lag(t) == BinIndexOf(now[t]) - 2

\* target_last = current_bin - 1
TargetLast(t) == BinIndexOf(now[t]) - 1

FlushBegin(t) ==
    /\ pc[t] = "flush"
    /\ IF IsRollover(t)
       THEN /\ pc' = [pc EXCEPT ![t] = "roll"]
            /\ loop_b' = [loop_b EXCEPT ![t] = last_logged_bin + 1]
       ELSE /\ pc' = [pc EXCEPT ![t] = "intraday"]
            /\ UNCHANGED loop_b
    /\ UNCHANGED <<timeVars, viewVars, binVars, motionVars, bin_lock, log_lock, log_file,
                   netVars, pruneVars, now, wake, histVars>>

RollWrite(t) ==
    /\ pc[t] = "roll"
    /\ loop_b[t] <= RolloverLast
    /\ WriteBin(t, TRUE)
    /\ UNCHANGED <<timeVars, viewVars, binVars, motionVars, bin_lock, log_lock, netVars,
                   pruneVars, pc, now, wake, recorded, rolled, late_add, failed>>

TableAfterRoll_kept == current_day_bin_counts

\* current_day_bin_counts = {}
TableAfterRoll == EmptyDict

\* active_date = now.date(); current_day_bin_counts = {}; last_logged_bin = -1
RollEnd(t) ==
    /\ pc[t] = "roll"
    /\ loop_b[t] > RolloverLast
    /\ rolled' = rolled \cup {active_date}
    /\ active_date' = DateOf(now[t])
    /\ current_day_bin_counts' = TableAfterRoll
    /\ last_logged_bin' = -1
    /\ pc' = [pc EXCEPT ![t] = "intraday"]
    /\ loop_b' = [loop_b EXCEPT ![t] = 0]
    /\ UNCHANGED <<timeVars, viewVars, motionVars, bin_lock, log_lock, log_file, netVars,
                   pruneVars, now, wake, recorded, writes, late_add, pass, failed>>

FlushesDay_always(t) == TRUE

\* if target_last > last_logged_bin:
FlushesDay(t) == TargetLast(t) > last_logged_bin

Intraday(t) ==
    /\ pc[t] = "intraday"
    /\ IF FlushesDay(t)
       THEN /\ pc' = [pc EXCEPT ![t] = "day"]
            /\ loop_b' = [loop_b EXCEPT ![t] = last_logged_bin + 1]
       ELSE /\ pc' = [pc EXCEPT ![t] = "done"]
            /\ UNCHANGED loop_b
    /\ UNCHANGED <<timeVars, viewVars, binVars, motionVars, bin_lock, log_lock, log_file,
                   netVars, pruneVars, now, wake, histVars>>

DayWrite(t) ==
    /\ pc[t] = "day"
    /\ loop_b[t] <= TargetLast(t)
    /\ WriteBin(t, FALSE)
    /\ UNCHANGED <<timeVars, viewVars, binVars, motionVars, bin_lock, log_lock, netVars,
                   pruneVars, pc, now, wake, recorded, rolled, late_add, failed>>

CursorAfterDay_kept(t) == last_logged_bin

\* last_logged_bin = target_last
CursorAfterDay(t) == TargetLast(t)

DayEnd(t) ==
    /\ pc[t] = "day"
    /\ loop_b[t] > TargetLast(t)
    /\ last_logged_bin' = CursorAfterDay(t)
    /\ pc' = [pc EXCEPT ![t] = "done"]
    /\ loop_b' = [loop_b EXCEPT ![t] = 0]
    /\ UNCHANGED <<timeVars, viewVars, active_date, current_day_bin_counts, motionVars,
                   bin_lock, log_lock, log_file, netVars, pruneVars, now, wake,
                   histVars>>

\* The write of write_bin_to_log raises (an I/O error): the exception leaves
\* flush_finished_bins and the `with bin_lock:` block, which releases
\* bin_lock, and ends the thread, whose loop has no handler.
WriteFail(t) ==
    /\ \/ pc[t] = "roll" /\ loop_b[t] <= RolloverLast
       \/ pc[t] = "day" /\ loop_b[t] <= TargetLast(t)
    /\ AppendGuard(t)
    /\ failed' = failed \cup {[day |-> active_date, bin |-> loop_b[t], by |-> t,
                               cursor |-> last_logged_bin]}
    /\ bin_lock' = Free
    /\ pc' = [pc EXCEPT ![t] = "dead"]
    /\ loop_b' = [loop_b EXCEPT ![t] = 0]
    /\ pass' = NoPass
    /\ UNCHANGED <<timeVars, viewVars, binVars, motionVars, log_lock, log_file, netVars,
                   pruneVars, now, wake, recorded, writes, rolled, late_add>>

(* ------------------------------------------------------------------ *)
(* bin_logger                                                           *)
(* ------------------------------------------------------------------ *)
\* now = datetime.now()
BL_Now ==
    /\ pc[BL] = "tick"
    /\ now' = [now EXCEPT ![BL] = clock]
    /\ pc' = [pc EXCEPT ![BL] = "lock"]
    /\ UNCHANGED <<timeVars, viewVars, binVars, motionVars, bin_lock, log_lock, log_file,
                   netVars, pruneVars, loop_b, wake, histVars>>

\* leaving `with bin_lock:`, then time.sleep(BIN_FLUSH_INTERVAL)
BL_Release ==
    /\ pc[BL] = "done"
    /\ bin_lock' = Free
    /\ pc' = [pc EXCEPT ![BL] = "tick"]
    /\ pass' = [pass EXCEPT !.prev = now[BL], !.prev_wrote = pass.wrote,
                            !.dirty = FALSE, !.same = FALSE, !.pre = <<>>, !.wrote = 0]
    /\ UNCHANGED <<timeVars, viewVars, binVars, motionVars, log_lock, log_file, netVars,
                   pruneVars, now, loop_b, wake, recorded, writes, rolled,
                   late_add, failed>>

(* ------------------------------------------------------------------ *)
(* motion_watcher                                                       *)
(* ------------------------------------------------------------------ *)
\* timedelta(hours=48)
MemoryWindow == 48 * 60

\* pir.wait_for_motion() returns; now = datetime.now(); motion_events is
\* appended to and cut to the last 48 hours.
MW_Motion(max) ==
    /\ pc[MW] = "wait"
    /\ Len(recorded) < max
    /\ now' = [now EXCEPT ![MW] = clock]
    /\ last_motion' = Some(clock)
    /\ motion_events' = SelectSeq(Append(motion_events, clock),
                                  LAMBDA e : e >= clock - MemoryWindow)
    /\ pc' = [pc EXCEPT ![MW] = "lock"]
    /\ UNCHANGED <<timeVars, viewVars, binVars, bin_lock, log_lock, log_file, netVars,
                   pruneVars, loop_b, wake, histVars>>

\* current_day_bin_counts[bin_index] = current_day_bin_counts.get(bin_index, 0) + 1
\* and leaving `with bin_lock:`
MW_Count ==
    LET bin_index == BinIndexOf(now[MW])
    IN /\ pc[MW] = "done"
       /\ current_day_bin_counts' =
              DictPut(current_day_bin_counts, bin_index,
                      DictGet(current_day_bin_counts, bin_index) + 1)
       /\ recorded' = Append(recorded, now[MW])
       /\ late_add' = (late_add \/ WasWritten(DateOf(now[MW]), bin_index))
       /\ bin_lock' = Free
       /\ pc' = [pc EXCEPT ![MW] = "wait"]
       /\ pass' = [pass EXCEPT !.prev = now[MW], !.prev_wrote = pass.wrote,
                               !.dirty = TRUE, !.same = FALSE, !.pre = <<>>, !.wrote = 0]
       /\ UNCHANGED <<timeVars, viewVars, active_date, last_logged_bin, motionVars, log_lock,
                      log_file, netVars, pruneVars, now, loop_b, wake, writes,
                      rolled, failed>>

(* ------------------------------------------------------------------ *)
(* network_watcher                                                      *)
(* ------------------------------------------------------------------ *)
\* The state the loop body computes from ROUTER_IP and the two pings.
NetworkStateOf(router, router_ok, external_ok) ==
    IF router = None THEN "NO_ROUTER_INFO"
    ELSE IF ~router_ok THEN "LAN_DOWN"
    ELSE IF ~external_ok THEN "LAN_UP_INTERNET_DOWN"
    ELSE "INTERNET_UP"

\* Top of the loop: if ROUTER_IP is None, get_router_ip() is tried again.
NW_Check ==
    /\ pc[NW] = "check"
    /\ clock >= wake[NW]
    /\ \E found \in BOOLEAN :
          IF ROUTER_IP = None /\ found
          THEN /\ nw.logged < MaxNetLines
               /\ ROUTER_IP' = Some(RouterIp)
               /\ pc' = [pc EXCEPT ![NW] = "log_router"]
          ELSE /\ ~found
               /\ pc' = [pc EXCEPT ![NW] = "ping"]
               /\ UNCHANGED ROUTER_IP
    /\ UNCHANGED <<timeVars, viewVars, binVars, motionVars, bin_lock, log_lock, log_file,
                   network_state, nw, pruneVars, now, loop_b, wake, histVars>>

\* log_network_event(f"Detected router IP: {ROUTER_IP}")
NW_LogRouter ==
    /\ pc[NW] = "log_router"
    /\ AppendGuard(NW)
    /\ log_file' = Append(log_file, NetLine(clock, "ROUTER"))
    /\ nw' = [nw EXCEPT !.logged = @ + 1]
    /\ pc' = [pc EXCEPT ![NW] = "ping"]
    /\ UNCHANGED <<timeVars, viewVars, binVars, motionVars, bin_lock, log_lock, ROUTER_IP,
                   network_state, pruneVars, now, loop_b, wake, histVars>>

\* The pings and the state; without a state change: network_state = state and
\* time.sleep(NETWORK_CHECK_INTERVAL).
NW_Ping ==
    /\ pc[NW] = "ping"
    /\ \E router_ok, external_ok \in BOOLEAN :
          /\ router_ok => ROUTER_IP # None
          /\ external_ok => router_ok
          /\ LET state == NetworkStateOf(ROUTER_IP, router_ok, external_ok)
             IN IF Some(state) # nw.prev_state
                THEN /\ nw.logged < MaxNetLines
                     /\ nw' = [nw EXCEPT !.state = Some(state)]
                     /\ pc' = [pc EXCEPT ![NW] = "log_state"]
                     /\ UNCHANGED <<network_state, wake>>
                ELSE /\ network_state' = Some(state)
                     /\ wake' = [wake EXCEPT ![NW] = clock + NETWORK_CHECK_INTERVAL \div 60]
                     /\ pc' = [pc EXCEPT ![NW] = "check"]
                     /\ UNCHANGED nw
    /\ UNCHANGED <<timeVars, viewVars, binVars, motionVars, bin_lock, log_lock, log_file,
                   ROUTER_IP, pruneVars, now, loop_b, histVars>>

\* log_network_event(msg); prev_state = state; network_state = state;
\* time.sleep(NETWORK_CHECK_INTERVAL)
NW_LogState ==
    /\ pc[NW] = "log_state"
    /\ AppendGuard(NW)
    /\ log_file' = Append(log_file, NetLine(clock, nw.state[1]))
    /\ nw' = [nw EXCEPT !.prev_state = nw.state, !.state = None, !.logged = @ + 1]
    /\ network_state' = nw.state
    /\ wake' = [wake EXCEPT ![NW] = clock + NETWORK_CHECK_INTERVAL \div 60]
    /\ pc' = [pc EXCEPT ![NW] = "check"]
    /\ UNCHANGED <<timeVars, viewVars, binVars, motionVars, bin_lock, log_lock, ROUTER_IP,
                   pruneVars, now, loop_b, histVars>>

(* ------------------------------------------------------------------ *)
(* prune_log_file and prune_watcher                                     *)
(* ------------------------------------------------------------------ *)
\* if not force and last_log_prune_at is not None:
\*     if (now - last_log_prune_at) < timedelta(hours=12): return
PruneSkips(force, t) ==
    ~force /\ last_log_prune_at # None /\ t - last_log_prune_at[1] < 12 * 60

\* The head of prune_log_file(force), called from `from`: now and cutoff_dt.
PruneCall(from, force) ==
    IF PruneSkips(force, clock)
    THEN /\ pc' = [pc EXCEPT ![PW] = "loop"]
         /\ UNCHANGED pw
    ELSE /\ pw' = [PwIdle EXCEPT !.from = from, !.now = clock,
                                 !.cutoff = clock - LOG_RETENTION_DAYS * minutes_per_day]
         /\ pc' = [pc EXCEPT ![PW] = "p_read"]

\* time.sleep(5); prune_log_file(force=True)
PW_Startup ==
    /\ pc[PW] = "startup"
    /\ PruneCall("startup", TRUE)
    /\ UNCHANGED <<timeVars, viewVars, binVars, motionVars, bin_lock, log_lock, log_file,
                   last_log_prune_at, netVars, now, loop_b, wake, histVars>>

\* `with log_lock:`, lines = f.readlines(), and the loop over the lines
PW_Read ==
    /\ pc[PW] = "p_read"
    /\ log_lock = Free
    /\ log_lock' = PW
    /\ LET r == PruneLoop(log_file, pw.cutoff,
                          [kept_lines |-> <<>>, removed |-> 0, kept_timestamped |-> 0])
       IN pw' = [pw EXCEPT !.lines = log_file,
                           !.kept = r.kept_lines,
                           !.removed = r.removed,
                           !.kept_timestamped = r.kept_timestamped]
    /\ pc' = [pc EXCEPT ![PW] = "p_write"]
    /\ UNCHANGED <<timeVars, viewVars, binVars, motionVars, bin_lock, log_file,
                   last_log_prune_at, netVars, now, loop_b, wake, histVars>>

LockAfterRewrite_held == PW

\* leaving `with log_lock:` before log_prune_event is called
LockAfterRewrite == Free

\* f.writelines(kept_lines), leaving `with log_lock:`, last_log_prune_at = now
PW_Rewrite ==
    /\ pc[PW] = "p_write"
    /\ log_file' = pw.kept
    /\ log_lock' = LockAfterRewrite
    /\ last_log_prune_at' = Some(pw.now)
    /\ pc' = [pc EXCEPT ![PW] = "p_log"]
    /\ UNCHANGED <<timeVars, viewVars, binVars, motionVars, bin_lock, netVars, pw, now,
                   loop_b, wake, histVars>>

PruneSleep_short == PRUNE_CHECK_INTERVAL \div 60

\* time.sleep(3600), in minutes
PruneSleep == 3600 \div 60

\* log_prune_event(removed, kept_timestamped, cutoff_dt); back in the loop of
\* prune_watcher: time.sleep(3600)
PW_LogPrune ==
    /\ pc[PW] = "p_log"
    /\ AppendGuard(PW)
    /\ log_file' = Append(log_file,
                          PruneLine(clock, pw.removed, pw.kept_timestamped, pw.cutoff))
    /\ wake' = [wake EXCEPT ![PW] = IF pw.from = "loop" THEN clock + PruneSleep ELSE @]
    /\ pw' = PwIdle
    /\ pc' = [pc EXCEPT ![PW] = "loop"]
    /\ UNCHANGED <<timeVars, viewVars, binVars, motionVars, bin_lock, log_lock,
                   last_log_prune_at, netVars, now, loop_b, histVars>>

\* while True: now = datetime.now(); if now.hour == PRUNE_AT_HOUR: prune
\* else time.sleep(PRUNE_CHECK_INTERVAL)
PW_Loop ==
    /\ pc[PW] = "loop"
    /\ clock >= wake[PW]
    /\ IF HourOf(clock) = PRUNE_AT_HOUR
       THEN /\ PruneCall("loop", TRUE)
            /\ UNCHANGED wake
       ELSE /\ wake' = [wake EXCEPT ![PW] = clock + PRUNE_CHECK_INTERVAL \div 60]
            /\ UNCHANGED <<pc, pw>>
    /\ UNCHANGED <<timeVars, viewVars, binVars, motionVars, bin_lock, log_lock, log_file,
                   last_log_prune_at, netVars, now, loop_b, histVars>>

(* ------------------------------------------------------------------ *)
(* Specifications                                                       *)
(* ------------------------------------------------------------------ *)
FlushStep ==
    \E t \in Flushers :
        \/ Acquire(t)
        \/ FlushBegin(t)
        \/ RollWrite(t)
        \/ RollEnd(t)
        \/ Intraday(t)
        \/ DayWrite(t)
        \/ DayEnd(t)

\* The flusher: motion_watcher, bin_logger and the clock, log writes succeed.
Next ==
    \/ Tick(BIN_MINUTES, MaxTicks)
    \/ BL_Now
    \/ BL_Release
    \/ MW_Motion(MaxEvents)
    \/ MW_Count
    \/ FlushStep

Spec == Init /\ [][Next]_vars

\* The flusher with log writes that may fail.
NextFail ==
    \/ Next
    \/ \E t \in Flushers : WriteFail(t)

SpecFail == Init /\ [][NextFail]_vars

\* The threads that use the log file: bin_logger, network_watcher and
\* prune_watcher, on a clock of hours started at 01:30 or 05:30.
LogStartTimes == {StartDay * minutes_per_day + m : m \in {90, 330}}

InitLog ==
    /\ BIN_MINUTES = ConfiguredBinMinutes
    /\ InitWith(LogStartTimes, {None, Some(RouterIp)})
    /\ log_file = InitialFile(start_time, ROUTER_IP)

NextLog ==
    \/ Tick(60, LogMaxTicks)
    \/ BL_Now
    \/ BL_Release
    \/ \E t \in {BL} :
          \/ Acquire(t)
          \/ FlushBegin(t)
          \/ Intraday(t)
          \/ DayWrite(t)
          \/ DayEnd(t)
    \/ NW_Check
    \/ NW_LogRouter
    \/ NW_Ping
    \/ NW_LogState
    \/ PW_Startup
    \/ PW_Read
    \/ PW_Rewrite
    \/ PW_LogPrune
    \/ PW_Loop

SpecLog == InitLog /\ [][NextLog]_vars

\* prune_log_file applied once to a file of up to MaxFileLen lines.
PruneNow == StartDay * minutes_per_day + 150
PruneCutoff == PruneNow - LOG_RETENTION_DAYS * minutes_per_day

SampleLines ==
    { HeaderLine(1, 0),
      ForeignLine(1), ForeignLine(2), ForeignLine(3),
      BinLine(DateOf(PruneCutoff), 0, 0),
      BinLine(DateOf(PruneCutoff), 1, 3),
      BinLine(DateOf(PruneCutoff) - 1, 3, 12),
      NetLine(PruneCutoff - 1, "LAN_DOWN"),
      NetLine(PruneCutoff, "INTERNET_UP"),
      PruneLine(PruneCutoff - minutes_per_day, 0, 5, PruneCutoff - 2 * minutes_per_day),
      PruneLine(PruneNow - 60, 2, 1, PruneCutoff - 60) }

SampleFiles == UNION {[1..n -> SampleLines] : n \in 0..MaxFileLen}

InitPrune ==
    /\ BIN_MINUTES = ConfiguredBinMinutes
    /\ InitWith({PruneNow}, {Some(RouterIp)})
    /\ log_file \in SampleFiles

NextPrune ==
    \/ PW_Startup
    \/ PW_Read
    \/ PW_Rewrite
    \/ PW_LogPrune

SpecPrune == InitPrune /\ [][NextPrune]_vars

(* ------------------------------------------------------------------ *)
(* Properties                                                           *)
(* ------------------------------------------------------------------ *)
RECURSIVE SumCounts(_, _)
\* Sum of the counts of the first n written bin lines that are for day d.
SumCounts(d, n) ==
    IF n = 0 THEN 0
    ELSE SumCounts(d, n - 1) + (IF writes[n].day = d THEN writes[n].count ELSE 0)

\* Number of recorded events whose instant lies on day d.
RecordedOn(d) == Cardinality({i \in DOMAIN recorded : DateOf(recorded[i]) = d})

\* The log holds a bin line for bin (d, b).
InLog(d, b) ==
    \E i \in DOMAIN log_file :
        /\ log_file[i].kind = "BIN"
        /\ log_file[i].day = d
        /\ log_file[i].bin = b

\* (day, bin) of write w comes strictly before that of write v.
Before(w, v) == w.day < v.day \/ (w.day = v.day /\ w.bin < v.bin)

\* C1 (conservation): once the flusher has rolled over out of day D, the
\* counts of the bin lines written for D add up to the number of events
\* recorded on D, and no event is added to a bin that was already written.
C1_Conservation ==
    /\ \A d \in rolled : SumCounts(d, Len(writes)) = RecordedOn(d)
    /\ ~late_add

\* C2 (exactly once, in order): the (day, bin index) pairs of the bin lines
\* written by all flush passes are strictly increasing in the order written.
C2_StrictlyIncreasing ==
    \A i \in 1..(Len(writes) - 1) : Before(writes[i], writes[i + 1])

\* C3 (never flushed early): every bin line a flush pass writes is for a bin
\* whose end-of-interval instant is at or before that pass's `now`.
C3_NeverEarly == \A i \in DOMAIN writes : ~writes[i].early

\* C4 as claimed (full-day coverage): after the flusher has rolled over out
\* of a day, the log holds a line for every bin index of that day, the start
\* day included.
C4_FullDay ==
    \A d \in rolled : \A b \in 0..(num_bins - 1) : InLog(d, b)

\* First bin index the process is responsible for on day d.
FirstBinOf(d) == IF d = DateOf(start_time) THEN start_bin_index ELSE 0

\* C4 as amended: after the flusher has rolled over out of a day, the log
\* holds a line for every bin index of that day from start_bin_index on when
\* the day is the start day, and for every bin index of any later day.
C4_FullDayFromStart ==
    \A d \in rolled : \A b \in FirstBinOf(d)..(num_bins - 1) : InLog(d, b)

\* The flusher rolled over out of the start day, started after its first bin,
\* and out of a later day.
C4_Witness ==
    /\ start_bin_index > 0
    /\ DateOf(start_time) \in rolled
    /\ \E d \in rolled : d # DateOf(start_time)

\* C5 (day rollover): every bin line written by the rollover branch carries
\* the number of events recorded for that bin of the old day.
C5_RolloverTrueCount ==
    \A i \in DOMAIN writes : writes[i].roll => writes[i].count = writes[i].truth

\* C6 (idempotence): a flush pass that follows a completed pass with the same
\* `now`, with no event recorded in between, writes no line and leaves
\* active_date, current_day_bin_counts and last_logged_bin as they were.
C6_Idempotent ==
    (bin_lock # Free /\ pass.same) =>
        /\ pass.wrote = 0
        /\ pass.pre = <<active_date, current_day_bin_counts, last_logged_bin>>

\* A second pass with the same `now` has run to its end after a first pass
\* that wrote bin lines.
C6_Witness ==
    /\ bin_lock # Free
    /\ pass.same
    /\ pc[bin_lock] = "done"
    /\ pass.prev_wrote > 0

\* The timestamp a written line carries: the bin start of a bin line, the
\* instant of an annotation line; header and foreign lines carry none.
HasTimestamp(l) == l.kind \in {"BIN", "NET", "PRUNE"}
TrueTimestamp(l) ==
    IF l.kind = "BIN" THEN l.day * minutes_per_day + l.bin * BIN_MINUTES ELSE l.ts

\* C7 (prune removes expired lines): after the rewrite of prune_log_file the
\* file holds no bin line and no annotation line whose timestamp is earlier
\* than now - LOG_RETENTION_DAYS.
C7_PruneRemovesExpired ==
    pc[PW] = "p_log" =>
        \A i \in DOMAIN log_file :
            HasTimestamp(log_file[i]) => TrueTimestamp(log_file[i]) >= pw.cutoff

\* A line prune_log_file must keep: a header, or one within retention.
MustKeep(l) == ~HasTimestamp(l) \/ TrueTimestamp(l) >= pw.cutoff

RECURSIVE IsSubseq(_, _)
\* s is t with some elements left out, the rest in the same order.
IsSubseq(s, t) ==
    IF Len(s) = 0 THEN TRUE
    ELSE IF Len(t) = 0 THEN FALSE
    ELSE IF Head(s) = Head(t) THEN IsSubseq(Tail(s), Tail(t))
    ELSE IsSubseq(s, Tail(t))

\* C8 (prune keeps what must be kept): the rewritten file is the file that
\* was read with lines left out and the order kept, every header line and
\* every line within retention is still in it, and it equals the file read
\* when every line of that file is a header or within retention.
C8_PruneKeeps ==
    pc[PW] = "p_log" =>
        /\ IsSubseq(log_file, pw.lines)
        /\ SelectSeq(log_file, MustKeep) = SelectSeq(pw.lines, MustKeep)
        /\ (\A i \in DOMAIN pw.lines : MustKeep(pw.lines[i])) => log_file = pw.lines

\* A prune has rewritten a file that held a header line and a timestamped
\* line within retention.
C8_Witness ==
    /\ pc[PW] = "p_log"
    /\ \E i \in DOMAIN pw.lines : ~HasTimestamp(pw.lines[i])
    /\ \E i \in DOMAIN pw.lines :
          HasTimestamp(pw.lines[i]) /\ TrueTimestamp(pw.lines[i]) >= pw.cutoff

\* C9 (write failure is retried): after a write of flush_finished_bins has
\* failed, last_logged_bin was not advanced to the failed bin, the failing
\* thread does not hold bin_lock, and bin_logger is still running, so that a
\* later tick tries the bin again.
C9_FailedWriteRetried ==
    \A f \in failed :
        /\ f.cursor < f.bin
        /\ bin_lock # f.by
        /\ pc[BL] # "dead"

\* A thread is about to append a line to the log file.
AppendPending(t) ==
    \/ t = BL /\ pc[t] = "day" /\ loop_b[t] <= TargetLast(t)
    \/ t = NW /\ pc[t] \in {"log_router", "log_state"}

\* C10 (prune and append are mutually exclusive): between the read and the
\* rewrite of prune_log_file the log file is as it was read, and every line
\* the flusher and network_watcher appended is in the file.
C10_PruneExcludesAppend ==
    /\ pc[PW] = "p_write" => (log_lock = PW /\ log_file = pw.lines)
    /\ \A i \in DOMAIN writes : InLog(writes[i].day, writes[i].bin)
    /\ Cardinality({i \in DOMAIN log_file : log_file[i].kind = "NET"}) = nw.logged

\* prune_log_file is between its read and its rewrite while another thread
\* is about to append.
C10_Witness ==
    /\ pc[PW] = "p_write"
    /\ \E t \in {BL, NW} : AppendPending(t)

\* A thread that holds bin_lock is at a call of write_bin_to_log: it waits
\* for log_lock or appends to the log file.
AtWriteBin(t) ==
    /\ bin_lock = t
    /\ \/ pc[t] = "roll" /\ loop_b[t] <= RolloverLast
       \/ pc[t] = "day" /\ loop_b[t] <= TargetLast(t)

\* C11 (no I/O under bin_lock): no thread that holds bin_lock is at a call
\* of write_bin_to_log, and no line was written to the log file by the pass
\* that holds bin_lock.
C11_NoIoUnderBinLock ==
    \A t \in Flushers : bin_lock = t => (~AtWriteBin(t) /\ pass.wrote = 0)

(* ------------------------------------------------------------------ *)
(* bin_logger alone: no motion event ever arrives                       *)
(* ------------------------------------------------------------------ *)
\* One step of bin_logger: lines 293-297 with the flush_finished_bins it calls.
BL_Step ==
    \/ BL_Now
    \/ BL_Release
    \/ FlushStep

NextIdle ==
    \/ Tick(BIN_MINUTES, MaxTicks)
    \/ BL_Step

\* bin_logger is a thread of its own that sleeps BIN_FLUSH_INTERVAL seconds
\* between passes: it is scheduled again and again.
SpecIdle == Init /\ [][NextIdle]_vars /\ WF_vars(BL_Step)

\* Days and bin indexes the clock of the flusher specifications can reach.
IdleDays == StartDay..(StartDay + MaxTicks)
IdleBins == 0..((minutes_per_day \div ConfiguredBinMinutes) - 1)

\* Bin (d, b) ends while the process runs.
EndsWhileRunning(d, b) == b < num_bins /\ BinEnd(d, b) > start_time

\* The log holds a bin line for bin (d, b) with count 0.
InLogZero(d, b) ==
    \E i \in DOMAIN log_file :
        /\ log_file[i].kind = "BIN"
        /\ log_file[i].day = d
        /\ log_file[i].bin = b
        /\ log_file[i].count = 0

\* Every bin that has ended by the `now` of bin_logger's last completed pass
\* is in the log with count 0.
WrittenByFirstTick ==
    pc[BL] = "tick" =>
        \A d \in IdleDays : \A b \in IdleBins :
            (EndsWhileRunning(d, b) /\ BinEnd(d, b) <= now[BL]) => InLogZero(d, b)

\* C12 (tick alone suffices): with no motion event, every bin that ends
\* while the process runs is eventually in the log with count 0, and it is
\* there when the first pass of bin_logger that read `now` at or after the
\* end of the bin has completed.
C12_TickAlone ==
    /\ []WrittenByFirstTick
    /\ \A d \in IdleDays : \A b \in IdleBins :
          (EndsWhileRunning(d, b) /\ clock >= BinEnd(d, b)) ~> InLogZero(d, b)

\* The last bin of the start day and the first bin of the next day were
\* written with count 0 by ticks alone.
C12_Witness ==
    /\ recorded = <<>>
    /\ InLogZero(DateOf(start_time), num_bins - 1)
    /\ InLogZero(DateOf(start_time) + 1, 0)

(* ------------------------------------------------------------------ *)
(* build_bins_html: the rows of the status page                         *)
(* ------------------------------------------------------------------ *)
\* The greatest element of a non-empty set of integers.
MaxOf(S) == CHOOSE x \in S : \A y \in S : y <= x

\* recent_events = [t for t in motion_events if t >= window_start]
RecentEvents(now_) ==
    SelectSeq(motion_events, LAMBDA t : t >= now_ - minutes_per_day)

\* bin_day_info: the keys (t.date(), idx), and count and latest_dt of a key
BinDayKeys(events) ==
    {<<DateOf(events[k]), BinIndexOf(events[k])>> : k \in DOMAIN events}
BinDayCount(events, key) ==
    Cardinality({k \in DOMAIN events :
                   <<DateOf(events[k]), BinIndexOf(events[k])>> = key})
BinDayLatest(events, key) ==
    MaxOf({events[k] : k \in {j \in DOMAIN events :
                   <<DateOf(events[j]), BinIndexOf(events[j])>> = key}})

\* bin_display[idx]: the key of index idx with the greatest latest_dt
BinDisplayKey(events, idx) ==
    LET keys == {key \in BinDayKeys(events) : key[2] = idx}
    IN CHOOSE key \in keys :
           \A other \in keys : BinDayLatest(events, other) <= BinDayLatest(events, key)

LatestOccurrence_noWrap(now_, h, m) ==
    LET candidate == DateOf(now_) * minutes_per_day + h * 60 + m
    IN IF candidate < start_time THEN None ELSE Some(candidate)

\* latest_occurrence_since_start(h, m)
LatestOccurrence(now_, h, m) ==
    LET today == DateOf(now_) * minutes_per_day + h * 60 + m
        candidate == IF today > now_ THEN today - minutes_per_day ELSE today
    IN IF candidate < start_time THEN None ELSE Some(candidate)

\* The date_label of a bin without events.
LabelOf(occ) ==
    IF occ = None THEN <<"N", "/", "A">> ELSE FormatDate(DateOf(occ[1]))

\* One iteration of `for i in range(num_bins):` the row of bin i and whether
\* an <hr> follows it.
ViewRow(now_, events, i) ==
    LET start_min == i * BIN_MINUTES
        end_min == start_min + BIN_MINUTES
        sh == start_min \div 60
        sm == start_min % 60
        eh == (end_min \div 60) % 24
        em == end_min % 60
        shown == \E key \in BinDayKeys(events) : key[2] = i
    IN [date_label |-> IF shown THEN FormatDate(BinDisplayKey(events, i)[1])
                       ELSE LabelOf(LatestOccurrence(now_, sh, sm)),
        sh |-> sh, sm |-> sm, eh |-> eh, em |-> em,
        count |-> IF shown THEN BinDayCount(events, BinDisplayKey(events, i)) ELSE 0,
        hr |-> (end_min % 60 = 0 /\ i < num_bins - 1)]

\* build_bins_html() called at datetime.now() = now_
BuildBinsHtml(now_) ==
    LET events == RecentEvents(now_)
    IN [now |-> now_, events |-> events,
        rows |-> [k \in 1..num_bins |-> ViewRow(now_, events, k - 1)]]

\* index(): GET / builds the page
Index ==
    /\ bins_html' = BuildBinsHtml(clock)
    /\ UNCHANGED <<timeVars, binVars, motionVars, bin_lock, log_lock, log_file,
                   pruneVars, netVars, pc, now, loop_b, wake, histVars>>

\* Bound of the status-page specification.
ViewMaxTicks == 3      \* clock steps of one hour

\* The process is started with bins of one hour at any half hour of the
\* start day, at the start or in the middle of a bin.
ViewBinMinutes == 60
ViewStartTimes == {StartDay * minutes_per_day + 30 * k : k \in 0..47}

InitView ==
    /\ BIN_MINUTES = ViewBinMinutes
    /\ InitWith(ViewStartTimes, {Some(RouterIp)})
    /\ log_file = InitialFile(start_time, ROUTER_IP)

\* The page is requested while bin_logger runs and no motion event arrives.
NextView ==
    \/ Tick(60, ViewMaxTicks)
    \/ BL_Step
    \/ Index

SpecView == InitView /\ [][NextView]_vars

\* The days on which the time of day of the start of bin i has occurred at
\* an instant between start_time and the `now` of the page.
OccurredOn(i) ==
    {d \in DateOf(start_time)..DateOf(bins_html.now) :
        /\ start_time <= d * minutes_per_day + i * BIN_MINUTES
        /\ d * minutes_per_day + i * BIN_MINUTES <= bins_html.now}

\* A page was built from no event in the last 24 hours.
EmptyView == bins_html.now >= 0 /\ bins_html.events = <<>>

\* C13 as claimed (status view with no events): a page built 3 hours after
\* start_time from no event shows, for every bin whose time of day has
\* occurred since the start, count 0 and today's date (now.date()), and for
\* every other bin count 0 and N/A.
C13_TodayOrNA ==
    (EmptyView /\ bins_html.now = start_time + 180) =>
        \A i \in 0..(num_bins - 1) :
            /\ bins_html.rows[i + 1].count = 0
            /\ bins_html.rows[i + 1].date_label =
                   IF OccurredOn(i) # {} THEN FormatDate(DateOf(bins_html.now))
                   ELSE <<"N", "/", "A">>

\* C13 as amended: a page built from no event shows one row per bin, with
\* count 0; the row of a bin whose start time of day has occurred at an
\* instant between start_time and now is labelled with the date of the
\* latest such instant (the day before now.date() when that instant lies
\* before midnight), the row of every other bin with N/A.
C13_LabelLatestOccurrence ==
    EmptyView =>
        /\ Len(bins_html.rows) = num_bins
        /\ \A i \in 0..(num_bins - 1) :
              /\ bins_html.rows[i + 1].count = 0
              /\ bins_html.rows[i + 1].date_label =
                     IF OccurredOn(i) # {} THEN FormatDate(MaxOf(OccurredOn(i)))
                     ELSE <<"N", "/", "A">>

\* A page was built from no event 3 hours after a start in the middle of a
\* bin and less than 3 hours before midnight: a row carries the date of the
\* day before, a row today's date, and a row N/A.
C13_Witness ==
    /\ EmptyView
    /\ bins_html.now = start_time + 180
    /\ DateOf(bins_html.now) = DateOf(start_time) + 1
    /\ MinuteOf(start_time) = 30
    /\ \E i \in 0..(num_bins - 1) :
          bins_html.rows[i + 1].date_label = FormatDate(DateOf(start_time))
    /\ \E i \in 0..(num_bins - 1) :
          bins_html.rows[i + 1].date_label = FormatDate(DateOf(bins_html.now))
    /\ \E i \in 0..(num_bins - 1) : bins_html.rows[i + 1].date_label = <<"N", "/", "A">>

\* ---------------------------------------------------------------------------
\* prune_log_file when the file system fails.  The read catches only
\* FileNotFoundError; every other OSError leaves `with log_lock:` (which
\* releases the lock), prune_log_file and the `while True:` of prune_watcher,
\* which has no try/except: the thread ends.  open("w") truncates the file
\* before writelines writes, so a failed rewrite leaves a prefix of kept_lines
\* (or the old content when open itself fails).

Prefixes(s) == {SubSeq(s, 1, k) : k \in 0..Len(s)}

\* log_file_path.open("r") or f.readlines() raises an OSError
PW_ReadFail ==
    /\ pc[PW] = "p_read"
    /\ log_lock = Free
    /\ pw' = [pw EXCEPT !.lines = log_file, !.error = "read"]
    /\ pc' = [pc EXCEPT ![PW] = "dead"]
    /\ UNCHANGED <<timeVars, viewVars, binVars, motionVars, bin_lock, log_lock, log_file,
                   last_log_prune_at, netVars, now, loop_b, wake, histVars>>

\* log_file_path.open("w") or f.writelines(kept_lines) raises an OSError
PW_RewriteFail ==
    /\ pc[PW] = "p_write"
    /\ log_file' \in Prefixes(pw.kept) \cup {pw.lines}
    /\ log_lock' = Free
    /\ pw' = [pw EXCEPT !.error = "rewrite"]
    /\ pc' = [pc EXCEPT ![PW] = "dead"]
    /\ UNCHANGED <<timeVars, viewVars, binVars, motionVars, bin_lock, last_log_prune_at,
                   netVars, now, loop_b, wake, histVars>>

NextPruneFail ==
    \/ NextPrune
    \/ PW_ReadFail
    \/ PW_RewriteFail

SpecPruneFail == InitPrune /\ [][NextPruneFail]_vars

\* C14: once prune_log_file has failed with an I/O error, in the read or in the
\* rewrite, the log file holds what it held when the prune started and
\* prune_watcher is still running, so that the prune is attempted again.
C14_PruneFailureHarmless ==
    pw.error # "" => (log_file = pw.lines /\ pc[PW] # "dead")

\* ---------------------------------------------------------------------------
\* Startup.  Before __main__ runs no thread exists and no log file is open;
\* __main__ calls init_log_file and starts the four threads.  Nothing between
\* the assignment of BIN_MINUTES and the start of the threads looks at its
\* value.

BadBinMinutes == 420
Widths == {ConfiguredBinMinutes, BadBinMinutes}

Booting == [t \in Threads |-> "boot"]

InitStart ==
    /\ BIN_MINUTES \in Widths
    /\ ModuleLevel(StartTimes, {None})
    /\ pc = Booting
    /\ log_file = <<>>

\* init_log_file(); then the four Thread(...).start()
Main ==
    /\ pc = Booting
    /\ ROUTER_IP' = Some(RouterIp)
    /\ log_file' = InitialFile(start_time, ROUTER_IP')
    /\ pc' = Started
    /\ UNCHANGED <<timeVars, viewVars, binVars, motionVars, bin_lock, log_lock,
                   last_log_prune_at, network_state, nw, pw, now, loop_b, wake, histVars>>

NextStart == Main \/ NextIdle

SpecStart == InitStart /\ [][NextStart]_vars

\* C15: a thread runs only when BIN_MINUTES evenly divides the minutes of a
\* day: any other width is rejected before __main__ starts the threads.
C15_WidthValidated ==
    pc # Booting => minutes_per_day % BIN_MINUTES = 0

\* ---------------------------------------------------------------------------
\* C16: the flush cursor last_logged_bin always lies in -1..num_bins - 2; a
\* step that leaves active_date alone never lowers it; and it is set to -1 in
\* exactly the steps that change active_date.
CursorInRange == last_logged_bin \in -1..(num_bins - 2)

CursorStep ==
    /\ active_date' = active_date => last_logged_bin' >= last_logged_bin
    /\ active_date' # active_date => last_logged_bin' = -1
    /\ (last_logged_bin' = -1 /\ last_logged_bin # -1) => active_date' # active_date

C16_CursorInvariant == []CursorInRange /\ [][CursorStep]_vars

\* The cursor was reset by a rollover and has advanced again on the new day.
C16_Witness ==
    /\ active_date # DateOf(start_time)
    /\ last_logged_bin > 0
    /\ bin_lock = Free

\* ---------------------------------------------------------------------------
\* C17: while bin_lock is free every count of current_day_bin_counts counts
\* events of active_date; the table changes only by an event of active_date
\* or by being emptied; and a step that changes active_date empties the
\* table after the pass has written every bin after the cursor for the old
\* active date.
TableScoped ==
    bin_lock = Free =>
        \A b \in DOMAIN current_day_bin_counts :
            current_day_bin_counts[b] \in 1..RecordedFor(active_date, b)

WrittenInPass(day, b) ==
    \E i \in (Len(writes) - pass.wrote + 1)..Len(writes) :
        writes[i].day = day /\ writes[i].bin = b

TableStep ==
    current_day_bin_counts' # current_day_bin_counts =>
        \/ current_day_bin_counts' = EmptyDict
        \/ /\ active_date' = active_date
           /\ DateOf(now[MW]) = active_date
           /\ current_day_bin_counts' =
                  DictPut(current_day_bin_counts, BinIndexOf(now[MW]),
                          DictGet(current_day_bin_counts, BinIndexOf(now[MW])) + 1)

DateStep ==
    active_date' # active_date =>
        /\ current_day_bin_counts' = EmptyDict
        /\ \A b \in (last_logged_bin + 1)..(num_bins - 1) : WrittenInPass(active_date, b)

C17_TableScoped == []TableScoped /\ [][TableStep /\ DateStep]_vars

\* Events of the start day were counted, the day rolled over, and events of
\* the new active date are in the table.
C17_Witness ==
    /\ bin_lock = Free
    /\ active_date # DateOf(start_time)
    /\ current_day_bin_counts # EmptyDict
    /\ \E i \in DOMAIN recorded : DateOf(recorded[i]) = DateOf(start_time)

\* ---------------------------------------------------------------------------
\* The schedule of prune_watcher over more than a day, next to bin_logger,
\* for a start at every half hour of the start day.

SchedMaxTicks == 54
SchedStartTimes == {StartDay * minutes_per_day + 30 * k : k \in 0..47}

InitSched ==
    /\ BIN_MINUTES = ConfiguredBinMinutes
    /\ InitWith(SchedStartTimes, {Some(RouterIp)})
    /\ log_file = InitialFile(start_time, ROUTER_IP)

\* prune_watcher sleeps 5 s, 60 s or 3600 s and a prune takes far less than
\* the 30 minutes of a clock step: when the clock steps, the thread is asleep
\* in its loop.
PrunerKeepsUp == pc[PW] = "loop" /\ wake[PW] > clock

SchedTick == PrunerKeepsUp /\ Tick(30, SchedMaxTicks)

NextSched ==
    \/ SchedTick
    \/ BL_Step
    \/ PW_Startup
    \/ PW_Loop
    \/ PW_Read
    \/ PW_Rewrite
    \/ PW_LogPrune

SpecSched == InitSched /\ [][NextSched]_vars

\* The PRUNE lines of the log, in the order of the prunes that wrote them;
\* the first is the one of the prune at startup.
PruneLines == SelectSeq(log_file, LAMBDA l : l.kind = "PRUNE")

\* The `now` of the execution of prune_log_file that wrote PRUNE line l:
\* cutoff_dt = now - timedelta(days=LOG_RETENTION_DAYS).
RunAt(l) == l.cutoff + LOG_RETENTION_DAYS * minutes_per_day

\* C18: the executions of prune_log_file after the one at startup, those
\* that have logged their PRUNE line and the one in progress, are at least 12
\* hours apart from each other.
C18_PrunesApart ==
    LET P == PruneLines
    IN /\ \A i \in 2..Len(P) : \A j \in (i + 1)..Len(P) :
              RunAt(P[j]) - RunAt(P[i]) >= 12 * 60
       /\ pw.from = "loop" =>
              \A i \in 2..Len(P) : pw.now - RunAt(P[i]) >= 12 * 60

\* Started during hour PRUNE_AT_HOUR, and two prunes of the loop have run.
C18_Witness ==
    /\ HourOf(start_time) = PRUNE_AT_HOUR
    /\ Len(PruneLines) >= 3

\* ---------------------------------------------------------------------------
\* C19: no step moves active_date to an earlier date.
C19_DateNeverBack == [][active_date' >= active_date]_vars

\* ---------------------------------------------------------------------------
\* The four threads together, with bins of an hour, started at 23:30 on a
\* clock that steps by three hours: at 02:30 the rollover, the bins of the new
\* day and the prune of hour PRUNE_AT_HOUR are all due.

ThreadsMaxTicks == 1
ThreadsMaxEvents == 1
ThreadsBinMinutes == ViewBinMinutes
ThreadsStartTimes == {StartDay * minutes_per_day + 23 * 60 + 30}

InitThreads ==
    /\ BIN_MINUTES = ThreadsBinMinutes
    /\ InitWith(ThreadsStartTimes, {Some(RouterIp)})
    /\ log_file = InitialFile(start_time, ROUTER_IP)

\* flush_finished_bins(now) inside `with bin_lock:`, run by thread t
FlushOf(t) ==
    \/ Acquire(t)
    \/ FlushBegin(t)
    \/ RollWrite(t)
    \/ RollEnd(t)
    \/ Intraday(t)
    \/ DayWrite(t)
    \/ DayEnd(t)

\* The steps of thread t once it is awake.
ThreadStep(t) ==
    \/ t = MW /\ (FlushOf(MW) \/ MW_Count)
    \/ t = BL /\ (FlushOf(BL) \/ BL_Release)
    \/ t = NW /\ (NW_Check \/ NW_LogRouter \/ NW_Ping \/ NW_LogState)
    \/ t = PW /\ (PW_Startup \/ PW_Loop \/ PW_Read \/ PW_Rewrite \/ PW_LogPrune)

\* Thread t is in pir.wait_for_motion() or in a time.sleep(...).
Sleeping(t) ==
    \/ t = MW /\ pc[MW] = "wait"
    \/ t = BL /\ pc[BL] = "tick"
    \/ t = NW /\ pc[NW] = "check" /\ clock < wake[NW]
    \/ t = PW /\ pc[PW] \in {"startup", "loop"} /\ clock < wake[PW]

\* A pass of a thread takes far less than the hours of a clock step: when the
\* clock steps, every thread is back in its sleep or its wait.
ThreadsTick ==
    /\ \A t \in Threads : Sleeping(t)
    /\ Tick(180, ThreadsMaxTicks)

NextThreads ==
    \/ ThreadsTick
    \/ MW_Motion(ThreadsMaxEvents)
    \/ BL_Now
    \/ \E t \in Threads : ThreadStep(t)

SpecThreads == InitThreads /\ [][NextThreads]_vars

\* Thread t is at a `with bin_lock:` / at a `with log_lock:`.
RequestsBinLock(t) == t \in Flushers /\ pc[t] = "lock"
RequestsLogLock(t) ==
    \/ t \in Flushers /\ pc[t] = "roll" /\ loop_b[t] <= RolloverLast
    \/ t \in Flushers /\ pc[t] = "day" /\ loop_b[t] <= TargetLast(t)
    \/ t = NW /\ pc[NW] \in {"log_router", "log_state"}
    \/ t = PW /\ pc[PW] \in {"p_read", "p_log"}

\* Thread t is awake and does not wait: it is not at a `with`, or the lock of
\* the `with` it is at is free.
CanStep(t) ==
    /\ ~Sleeping(t)
    /\ RequestsBinLock(t) => bin_lock = Free
    /\ RequestsLogLock(t) => log_lock = Free

\* The read of a prune is left to its guard, log_lock = Free: the value of
\* its loop over the lines plays no part in whether it can be taken.
AtPruneRead(t) == t = PW /\ pc[PW] = "p_read"

\* C20: a thread at `with bin_lock:` holds neither lock, a thread at
\* `with log_lock:` does not hold log_lock (it may hold bin_lock: the order is
\* bin_lock, then log_lock); when some thread is awake, some awake thread
\* does not wait; and a thread that does not wait has a step to take.
C20_NoDeadlock ==
    /\ \A t \in Threads : RequestsBinLock(t) => (log_lock # t /\ bin_lock # t)
    /\ \A t \in Threads : RequestsLogLock(t) => log_lock # t
    /\ (\E t \in Threads : ~Sleeping(t)) => \E t \in Threads : CanStep(t)
    /\ \A t \in Threads : (CanStep(t) /\ ~AtPruneRead(t)) => ENABLED ThreadStep(t)

\* bin_logger holds bin_lock and waits for log_lock, which prune_watcher
\* holds, while motion_watcher waits for bin_lock.
C20_Witness ==
    /\ bin_lock = BL
    /\ RequestsLogLock(BL)
    /\ log_lock = PW
    /\ RequestsBinLock(MW)

====
